---- MODULE Spec2Model ----
\* Model of the NotrailNote sync core: the durable sync queue (syncQueue),
\* the sync reconciler (githubSync), the document table and the remote
\* file service they talk to.
\*
\* Fault assumptions of the model: every remote call may fail (network or
\* API error) and every SQLite call may throw; AsyncStorage (the queue's
\* backing store) is reliable.  Every awaited handler is one action; the
\* processSyncQueue pass is one action per loop iteration, so that other
\* handlers interleave between the entries of a pass.
EXTENDS Integers, Sequences, FiniteSets, TLC

\* ---------------------------------------------------------------- bounds
MaxCommits == 2       \* remote commits that can be created
MaxIds == 2           \* queue entry ids that generateId can hand out
MaxVersions == 1      \* snapshots that can be stored
B64LineWidth == 4     \* symbols per line in the remote's base64 payload
MaxSnapshots == 2     \* snapshot ids that the callers of createVersion use
MaxLines == 3         \* lines of a text handed to computeDiff
MaxTitleLen == 3      \* characters of a short title handed to getDocumentPath
MaxTasks == 2         \* queue calls that can be running at the same time

\* ------------------------------------------------------ program constants
DefaultMaxRetries == 3
PathMaxLen == 100
DayMs == 86400000     \* 24 * 60 * 60 * 1000

\* The model follows one document: the one open in the editor, whose queue
\* entries are (EditedDoc, push) and (EditedDoc, pull).
EditedDoc == 1
Docs == {EditedDoc}

\* ------------------------------------------------------------------ text
\* A text is a sequence of one-character strings.
Alphabet == <<"#", " ", "\n", "t", "u", "x", "y", "/", "_">>

Titles == { <<"t">>, <<"t", "/">> }
Bodies == { <<"x">>, <<"x", "\n">> }

IsSpace(c) == c \in {" ", "\n", "\t"}

RECURSIVE TrimStart(_)
TrimStart(s) ==
  IF s # <<>> /\ IsSpace(Head(s)) THEN TrimStart(Tail(s)) ELSE s

RECURSIVE TrimEnd(_)
TrimEnd(s) ==
  IF s # <<>> /\ IsSpace(s[Len(s)]) THEN TrimEnd(SubSeq(s, 1, Len(s) - 1)) ELSE s

\* String.prototype.trim
Trim(s) == TrimEnd(TrimStart(s))

\* .replace(/[<>:"/\\|?*]/g, '_')
IllegalChars == {"<", ">", ":", "\"", "/", "\\", "|", "?", "*"}
ReplaceIllegal(s) ==
  [i \in 1..Len(s) |-> IF s[i] \in IllegalChars THEN "_" ELSE s[i]]

\* .replace(/\s+/g, '_'): the first character of a run of whitespace becomes
\* "_" and the rest of the run goes ("" marks a character that goes)
CollapseSpace(s) ==
  SelectSeq([i \in 1..Len(s) |->
               IF ~IsSpace(s[i]) THEN s[i]
               ELSE IF i > 1 /\ IsSpace(s[i - 1]) THEN "" ELSE "_"],
            LAMBDA c : c # "")

SliceWhole(s, n) == s

\* .slice(0, n)
Slice(s, n) == SubSeq(s, 1, IF Len(s) < n THEN Len(s) ELSE n)

getDocumentPath(title) ==
  <<"documents/">> \o Slice(CollapseSpace(ReplaceIllegal(title)), PathMaxLen)
                   \o <<".md">>

Paths == { getDocumentPath(t) : t \in Titles }

LocalContentOneBreak(document) ==
  <<"#", " ">> \o document.title \o <<"\n">> \o document.content

\* `# ${document.title}\n\n${document.content}`
LocalContent(document) ==
  <<"#", " ">> \o document.title \o <<"\n", "\n">> \o document.content

\* ------------------------------------------------------- base64 transport
\* The payload is a sequence of symbol codes; code 0 is the line break the
\* remote inserts into the payload it returns.
B64Newline == 0

CharCode(c) == CHOOSE i \in 1..Len(Alphabet) : Alphabet[i] = c

\* btoa(unescape(encodeURIComponent(content)))
Btoa(s) == [i \in 1..Len(s) |-> CharCode(s[i])]

\* atob
Atob(b) == [i \in 1..Len(b) |-> Alphabet[b[i]]]

RECURSIVE WrapLines(_)
WrapLines(b) ==
  IF Len(b) <= B64LineWidth THEN b \o <<B64Newline>>
  ELSE SubSeq(b, 1, B64LineWidth) \o <<B64Newline>>
       \o WrapLines(SubSeq(b, B64LineWidth + 1, Len(b)))

\* content.replace(/\n/g, '') followed by atob and the UTF-8 decode
decodeContent(content) ==
  Atob(SelectSeq(content, LAMBDA x : x # B64Newline))

\* ------------------------------------------------------------ revision ids
NoSha == <<"none", <<>>, 0>>
\* the blob id of a file is a function of its content
BlobSha(text) == <<"blob", text, 0>>
\* the id of the n-th commit
CommitSha(n) == <<"commit", <<>>, n>>

\* ------------------------------------------------------------------ state
VARIABLES
  documents,   \* documents table: id -> row, for the rows that exist
  versions,    \* versions table: set of rows
  remote,      \* remote repository: path -> file
  commits,     \* number of commits made in the remote repository
  queue,       \* persisted sync queue (AsyncStorage, SYNC_QUEUE_KEY)
  nextId,      \* source of generateId
  pass,        \* the processSyncQueue call in progress
  call,        \* the pushDocument call suspended between its read and write
  editor,      \* the editor screen: its document, its text, its saved text
  tasks,       \* the queue calls suspended at an await, by caller
  last         \* the most recent handler call and what it did

vars ==
  <<documents, versions, remote, commits, queue, nextId, pass, call, editor,
    tasks, last>>

NoSync == [enabled |-> FALSE, repoPath |-> <<>>, lastCommitSha |-> NoSha,
           syncStatus |-> "none"]

NoFile == [exists |-> FALSE, text |-> <<>>]
File(text) == [exists |-> TRUE, text |-> text]

NoResult == [success |-> FALSE, action |-> "none", message |-> "",
             commitSha |-> NoSha]
NoDocument == [id |-> 0, title |-> <<>>, content |-> <<>>, githubSync |-> NoSync]

\* ------------------------------------------------------------- documents
getDocumentByIdBlank(docs, id) ==
  IF id \in DOMAIN docs THEN docs[id]
  ELSE [id |-> id, title |-> <<"t">>, content |-> <<>>, githubSync |-> NoSync]

getDocumentById(docs, id) ==
  IF id \in DOMAIN docs THEN docs[id] ELSE NoDocument

\* UPDATE documents SET <the fields of updates> WHERE id = ?
updateDocument(docs, id, updates) ==
  IF id \notin DOMAIN docs THEN docs
  ELSE [docs EXCEPT ![id] =
          [f \in DOMAIN docs[id] |->
             IF f \in DOMAIN updates THEN updates[f] ELSE docs[id][f]]]

\* ---------------------------------------------------- remote file service
\* GET /repos/{owner}/{repo}/contents/{path}; null when the call fails or
\* the response is not ok
getFileContent(rem, path, net) ==
  IF net /\ rem[path].exists
  THEN [found |-> TRUE, sha |-> BlobSha(rem[path].text),
        content |-> WrapLines(Btoa(rem[path].text))]
  ELSE [found |-> FALSE, sha |-> NoSha, content |-> <<>>]

\* The remote accepts a write that names the current blob of the file, or
\* names none when the file does not exist.
RemoteAccepts(rem, path, sha) ==
  IF rem[path].exists THEN sha = BlobSha(rem[path].text) ELSE sha = NoSha

\* PUT /repos/{owner}/{repo}/contents/{path}; null when the call fails or
\* the response is not ok
createOrUpdateFile(rem, cnt, path, content, sha, net) ==
  IF net /\ RemoteAccepts(rem, path, sha)
  THEN [ok |-> TRUE,
        remote |-> [rem EXCEPT ![path] = File(Atob(Btoa(content)))],
        commits |-> cnt + 1,
        commit |-> [sha |-> CommitSha(cnt + 1)]]
  ELSE [ok |-> FALSE, remote |-> rem, commits |-> cnt,
        commit |-> [sha |-> NoSha]]

\* ------------------------------------------------------------- reconciler
MsgUploadFailed == "upload failed"
MsgSynced == "synced"
MsgNoChange == "no change"
MsgDbError == "database error"
MsgThrown == "Error: database error"

\* error.message of a thrown Error
ErrorMessage(e) == IF e = MsgThrown THEN MsgDbError ELSE e

ErrorResult(msg) ==
  [success |-> FALSE, action |-> "error", message |-> msg, commitSha |-> NoSha]

\* The outcome of a reconciler call: the stores after it, its result, the
\* number of getFileContent and createOrUpdateFile calls it made, and the
\* branch of syncDocument that led to a push.
Outcome(docs, rem, cnt, result, reads, writes) ==
  [documents |-> docs, remote |-> rem, commits |-> cnt, result |-> result,
   reads |-> reads, writes |-> writes, fetched |-> FALSE, branch |-> "none"]

SyncedDescriptorPending(path, sha) ==
  [enabled |-> TRUE, repoPath |-> path, lastCommitSha |-> sha,
   syncStatus |-> "pending"]

SyncedDescriptor(path, sha) ==
  [enabled |-> TRUE, repoPath |-> path, lastCommitSha |-> sha,
   syncStatus |-> "synced"]

ExistingShaNone(existingFile) == NoSha

\* existingFile?.sha
ExistingSha(existingFile) == existingFile.sha

\* pushDocument from its write on, given what its read returned.
\* net2: the write succeeds; dbOk: the update of the documents table does
\* not throw
pushWrite(document, existingFile, docs, rem, cnt, net2, dbOk) ==
  LET path == getDocumentPath(document.title)
      content == LocalContent(document)
      result == createOrUpdateFile(rem, cnt, path, content,
                                   ExistingSha(existingFile), net2)
  IN IF ~result.ok
     THEN Outcome(docs, rem, cnt, ErrorResult(MsgUploadFailed), 1, 1)
     ELSE IF ~dbOk
     THEN Outcome(docs, result.remote, result.commits,
                  ErrorResult(ErrorMessage(MsgThrown)), 1, 1)
     ELSE Outcome(updateDocument(docs, document.id,
                    [githubSync |-> SyncedDescriptor(path, result.commit.sha)]),
                  result.remote, result.commits,
                  [success |-> TRUE, action |-> "pushed",
                   message |-> MsgSynced, commitSha |-> result.commit.sha],
                  1, 1)

\* net1: the read succeeds
pushDocument(document, docs, rem, cnt, net1, net2, dbOk) ==
  pushWrite(document, getFileContent(rem, getDocumentPath(document.title), net1),
            docs, rem, cnt, net2, dbOk)

\* ------------------------------------------------------------------- pull
MsgFileNotFound == "file not found"
MsgLocalNotFound == "local document not found"
MsgPulled == "pulled"

\* content.split('\n')
RECURSIVE SplitLines(_)
SplitLines(s) ==
  IF \A i \in 1..Len(s) : s[i] # "\n" THEN <<s>>
  ELSE LET k == CHOOSE i \in 1..Len(s) :
                  s[i] = "\n" /\ \A j \in 1..(i - 1) : s[j] # "\n"
       IN <<SubSeq(s, 1, k - 1)>> \o SplitLines(SubSeq(s, k + 1, Len(s)))

\* lines.join('\n')
RECURSIVE JoinLines(_)
JoinLines(lines) ==
  IF lines = <<>> THEN <<>>
  ELSE IF Len(lines) = 1 THEN lines[1]
  ELSE lines[1] \o <<"\n">> \o JoinLines(Tail(lines))

\* s.slice(n) of a string or an array
SliceFrom(s, n) == SubSeq(s, n + 1, Len(s))

\* lines[0]?.startsWith('# ')
StartsWithHeading(lines) ==
  /\ Len(lines[1]) >= 2
  /\ lines[1][1] = "#"
  /\ lines[1][2] = " "

\* the title and the body pullDocument takes from the remote content
ParseMarkdown(content) ==
  LET lines == SplitLines(content)
  IN IF StartsWithHeading(lines)
     THEN [title |-> Trim(SliceFrom(lines[1], 2)),
           body |-> Trim(JoinLines(SliceFrom(lines, 2)))]
     ELSE [title |-> <<>>, body |-> content]

\* net: the read succeeds; dbRead: getDocumentById does not throw; dbOk: the
\* update of the documents table does not throw
pullDocument(documentId, path, docs, rem, cnt, net, dbRead, dbOk) ==
  LET file == getFileContent(rem, path, net)
      parsed == ParseMarkdown(decodeContent(file.content))
      doc == getDocumentById(docs, documentId)
  IN IF ~file.found
     THEN Outcome(docs, rem, cnt, ErrorResult(MsgFileNotFound), 1, 0)
     ELSE IF ~dbRead
     THEN Outcome(docs, rem, cnt, ErrorResult(ErrorMessage(MsgThrown)), 1, 0)
     ELSE IF doc = NoDocument
     THEN Outcome(docs, rem, cnt, ErrorResult(MsgLocalNotFound), 1, 0)
     ELSE IF ~dbOk
     THEN Outcome(docs, rem, cnt, ErrorResult(ErrorMessage(MsgThrown)), 1, 0)
     ELSE [Outcome(updateDocument(docs, documentId,
                     [title |-> IF parsed.title # <<>> THEN parsed.title
                                ELSE doc.title,
                      content |-> parsed.body,
                      githubSync |-> SyncedDescriptor(path, file.sha)]),
                   rem, cnt,
                   [success |-> TRUE, action |-> "pulled",
                    message |-> MsgPulled, commitSha |-> file.sha],
                   1, 0)
             EXCEPT !.fetched = TRUE]

\* -------------------------------------------------------------------- sync
ContentsMatchExactly(remoteContent, localContent) ==
  remoteContent = localContent

\* remoteContent.trim() === localContent.trim()
ContentsMatch(remoteContent, localContent) ==
  Trim(remoteContent) = Trim(localContent)

NoChangeOutcomeMarksSynced(document, docs, rem, cnt, remoteFile) ==
  Outcome(updateDocument(docs, document.id,
            [githubSync |-> [enabled |-> TRUE,
                             repoPath |-> getDocumentPath(document.title),
                             lastCommitSha |-> remoteFile.sha,
                             syncStatus |-> "synced"]]),
          rem, cnt,
          [success |-> TRUE, action |-> "no_change",
           message |-> MsgNoChange, commitSha |-> remoteFile.sha],
          1, 0)

\* the return of syncDocument when the contents match
NoChangeOutcome(document, docs, rem, cnt, remoteFile) ==
  Outcome(docs, rem, cnt,
          [success |-> TRUE, action |-> "no_change",
           message |-> MsgNoChange, commitSha |-> remoteFile.sha],
          1, 0)

\* net0: the read of syncDocument succeeds; fetched: that read returned a file
syncDocument(document, docs, rem, cnt, net0, net1, net2, dbOk) ==
  LET path == getDocumentPath(document.title)
      remoteFile == getFileContent(rem, path, net0)
      remoteContent == decodeContent(remoteFile.content)
      localContent == LocalContent(document)
      push == pushDocument(document, docs, rem, cnt, net1, net2, dbOk)
      pushed == [push EXCEPT !.reads = @ + 1, !.fetched = remoteFile.found]
  IN IF ~remoteFile.found THEN [pushed EXCEPT !.branch = "absent"]
     ELSE IF ContentsMatch(remoteContent, localContent)
     THEN [NoChangeOutcome(document, docs, rem, cnt, remoteFile)
             EXCEPT !.fetched = TRUE]
     ELSE IF document.githubSync.lastCommitSha = remoteFile.sha
     THEN [pushed EXCEPT !.branch = "unchanged"]
     ELSE [pushed EXCEPT !.branch = "conflict"]

\* ------------------------------------------------------------ sync queue
NoError == ""

\* what AsyncStorage holds under SYNC_QUEUE_KEY: nothing, or a saved queue
NoData == [stored |-> FALSE, items |-> <<>>]

\* data ? JSON.parse(data) : []
loadQueue(data) == IF data.stored THEN data.items ELSE <<>>

\* setItem(SYNC_QUEUE_KEY, JSON.stringify(queue))
saveQueue(q) == [stored |-> TRUE, items |-> q]

generateId(n) == n

RemoveHead(q, id) == IF q = <<>> THEN q ELSE Tail(q)

RemoveItem(q, id) == SelectSeq(q, LAMBDA item : item.id # id)

BumpRetryAll(q, id, msg) ==
  [k \in 1..Len(q) |-> [q[k] EXCEPT !.retryCount = @ + 1, !.lastError = msg]]

\* queue.map(q => q.id === id ? {...q, retryCount + 1, lastError} : q)
BumpRetry(q, id, msg) ==
  [k \in 1..Len(q) |->
     IF q[k].id = id
     THEN [q[k] EXCEPT !.retryCount = @ + 1, !.lastError = msg]
     ELSE q[k]]

InQueueNever(q, documentId, action) == FALSE

InQueue(q, documentId, action) ==
  \E k \in 1..Len(q) : q[k].documentId = documentId /\ q[k].action = action

NewItem(id, documentId, action) ==
  [id |-> id, documentId |-> documentId, action |-> action,
   retryCount |-> 0, lastError |-> NoError]

\* What a handler call did: the queue entry and the document it was about,
\* the reconciler's result, the number of getDocumentById, getFileContent and
\* createOrUpdateFile calls, what was returned or counted, whether the
\* reconciler's own read returned a file, whether the call threw, the
\* branch of syncDocument that led to a push, the revision id handed to
\* the remote write of a suspended push, and the path given to a pull.
Event(op, id, document, result, loads, reads, writes, ret) ==
  [op |-> op, id |-> id,
   document |-> [document EXCEPT !.githubSync = NoSync], result |-> result,
   loads |-> loads, reads |-> reads, writes |-> writes, ret |-> ret,
   fetched |-> FALSE, threw |-> FALSE, branch |-> "none", sha |-> NoSha,
   path |-> <<>>]

QuietEvent(op, id) == Event(op, id, NoDocument, NoResult, 0, 0, 0, "none")

\* a call that no property observes
Idle == QuietEvent("idle", 0)

addToSyncQueue(documentId, action) ==
  /\ LET q == loadQueue(queue)
     IN IF InQueue(q, documentId, action)
        THEN UNCHANGED <<queue, nextId>>
        ELSE /\ nextId <= MaxIds
             /\ queue' = saveQueue(Append(q, NewItem(generateId(nextId), documentId, action)))
             /\ nextId' = nextId + 1
  /\ last' = [QuietEvent("addToSyncQueue", 0) EXCEPT
                !.document = [NoDocument EXCEPT !.id = documentId],
                !.ret = action]
  /\ UNCHANGED <<documents, versions, remote, commits, pass, call, editor, tasks>>

removeFromQueue(id) ==
  /\ queue' = saveQueue(RemoveItem(loadQueue(queue), id))
  /\ last' = Idle
  /\ UNCHANGED <<documents, versions, remote, commits, nextId, pass, call, editor, tasks>>

clearSyncQueue ==
  /\ queue' = NoData
  /\ last' = Idle
  /\ UNCHANGED <<documents, versions, remote, commits, nextId, pass, call, editor, tasks>>

\* The outcome of processQueueItem: the stores and the queue after it, what
\* it returned and what it called.
ItemOutcome(out, q, ret, document, loads) ==
  [documents |-> out.documents, remote |-> out.remote, commits |-> out.commits,
   queue |-> q, ret |-> ret, document |-> document, result |-> out.result,
   loads |-> loads, reads |-> out.reads, writes |-> out.writes,
   fetched |-> out.fetched, threw |-> FALSE]

\* dbRead: getDocumentById does not throw; net0, net1, net2, dbOk as in
\* syncDocument
processQueueItem(item, docs, rem, cnt, q, dbRead, net0, net1, net2, dbOk) ==
  LET idle == Outcome(docs, rem, cnt, NoResult, 0, 0)
      doc == getDocumentById(docs, item.documentId)
      sync == syncDocument(doc, docs, rem, cnt, net0, net1, net2, dbOk)
  IN IF ~dbRead
     THEN [ItemOutcome(idle, saveQueue(BumpRetry(loadQueue(q), item.id, MsgThrown)),
                       FALSE, NoDocument, 1) EXCEPT !.threw = TRUE]
     ELSE IF doc = NoDocument
     THEN ItemOutcome(idle, saveQueue(RemoveItem(loadQueue(q), item.id)), TRUE, NoDocument, 1)
     ELSE IF item.action = "push"
     THEN IF sync.result.success
          THEN ItemOutcome(sync, saveQueue(RemoveItem(loadQueue(q), item.id)), TRUE, doc, 1)
          ELSE ItemOutcome(sync,
                           saveQueue(BumpRetry(loadQueue(q), item.id, sync.result.message)),
                           FALSE, doc, 1)
     ELSE ItemOutcome(idle, q, TRUE, doc, 1)

IdlePass ==
  [active |-> FALSE, queue |-> <<>>, i |-> 0, maxRetries |-> DefaultMaxRetries,
   success |-> 0, failed |-> 0, processed |-> <<>>, progress |-> <<>>]

RetryLimits == {1, DefaultMaxRetries}

ExceededRetryLimitOffByOne(item, maxRetries) == item.retryCount > maxRetries

\* item.retryCount >= maxRetries
ExceededRetryLimit(item, maxRetries) == item.retryCount >= maxRetries

NextIndexBreak(i, ret, n) == IF ret THEN i + 1 ELSE n

\* the loop's i++: the next index, of n, after an iteration that returned ret
NextIndex(i, ret, n) == i + 1

\* processSyncQueue up to the loop: the queue is loaded once
StartPass(maxRetries) ==
  /\ ~pass.active
  /\ pass' = [IdlePass EXCEPT !.active = TRUE, !.queue = loadQueue(queue),
                              !.maxRetries = maxRetries]
  /\ last' = Idle
  /\ UNCHANGED <<documents, versions, remote, commits, queue, nextId, call, editor, tasks>>

\* one iteration of the loop on an entry at or over the retry limit
SkipItem ==
  /\ pass.active
  /\ pass.i < Len(pass.queue)
  /\ LET item == pass.queue[pass.i + 1]
     IN /\ ExceededRetryLimit(item, pass.maxRetries)
        /\ pass' = [pass EXCEPT !.i = NextIndex(@, FALSE, Len(pass.queue)), !.failed = @ + 1]
        /\ last' = [QuietEvent("skip", item.id) EXCEPT !.ret = "failed"]
  /\ UNCHANGED <<documents, versions, remote, commits, queue, nextId, call, editor, tasks>>

\* one iteration of the loop on an entry under the retry limit
ProcessItem(dbRead, net0, net1, net2, dbOk) ==
  /\ pass.active
  /\ pass.i < Len(pass.queue)
  /\ LET item == pass.queue[pass.i + 1]
         returned == processQueueItem(item, documents, remote, commits, queue,
                                      dbRead, net0, net1, net2, dbOk)
     IN \E out \in {returned} :
        /\ ~ExceededRetryLimit(item, pass.maxRetries)
        /\ out.commits <= MaxCommits
        /\ documents' = out.documents
        /\ remote' = out.remote
        /\ commits' = out.commits
        /\ queue' = out.queue
        /\ pass' = [pass EXCEPT
                      !.i = NextIndex(@, out.ret, Len(pass.queue)),
                      !.success = IF out.ret THEN @ + 1 ELSE @,
                      !.failed = IF out.ret THEN @ ELSE @ + 1,
                      !.processed = Append(@, item.id),
                      !.progress = Append(@, <<pass.i + 1, Len(pass.queue)>>)]
        /\ last' = [Event("processQueueItem", item.id, out.document, out.result,
                          out.loads, out.reads, out.writes,
                          IF out.ret THEN "success" ELSE "failed")
                      EXCEPT !.fetched = out.fetched, !.threw = out.threw]
  /\ UNCHANGED <<versions, nextId, call, editor, tasks>>

\* processSyncQueue returns { success, failed }
FinishPass ==
  /\ pass.active
  /\ pass.i = Len(pass.queue)
  /\ pass' = IdlePass
  /\ last' = Idle
  /\ UNCHANGED <<documents, versions, remote, commits, queue, nextId, call, editor, tasks>>

\* ------------------------------------------------- documents and versions
NewDocument(id, title, content) ==
  [id |-> id, title |-> title, content |-> content, githubSync |-> NoSync]

createDocument(id, title, content) ==
  /\ id \notin DOMAIN documents
  /\ documents' = [d \in DOMAIN documents \cup {id} |->
                     IF d = id THEN NewDocument(id, title, content)
                     ELSE documents[d]]
  /\ last' = Idle
  /\ UNCHANGED <<versions, remote, commits, queue, nextId, pass, call, editor, tasks>>

\* the editor saving the title and the content of a document
saveDocument(id, title, content) ==
  /\ id \in DOMAIN documents
  /\ documents' = updateDocument(documents, id,
                                 [title |-> title, content |-> content])
  /\ last' = Idle
  /\ UNCHANGED <<versions, remote, commits, queue, nextId, pass, call, editor, tasks>>

\* What a call on the versions table did: the document or snapshot id it
\* was given, the retention and the clock it ran with, the rows it changed
\* (result.changes, or what the function returned) and whether it threw.
VersionEvent(op, id, retentionDays, now, changes, threw) ==
  [op |-> op, id |-> id, retentionDays |-> retentionDays, now |-> now,
   changes |-> changes, threw |-> threw]

\* DELETE FROM documents WHERE id = ?
\* The versions table declares ON DELETE CASCADE on document_id, and
\* initDatabase never sets PRAGMA foreign_keys: whether the constraint is
\* enforced (foreignKeys) is left to the SQLite build.
deleteDocument(id, foreignKeys) ==
  /\ id \in DOMAIN documents
  /\ documents' = [d \in DOMAIN documents \ {id} |-> documents[d]]
  /\ versions' = IF foreignKeys
                 THEN { v \in versions : v.documentId # id }
                 ELSE versions
  /\ last' = IF versions = {} THEN Idle
             ELSE VersionEvent("deleteDocument", id, 0, 0, 1, FALSE)
  /\ UNCHANGED <<remote, commits, queue, nextId, pass, call, editor, tasks>>

\* a row of the versions table
Version(id, documentId, content, createdAt, source, autoSaved) ==
  [id |-> id, documentId |-> documentId, content |-> content,
   createdAt |-> createdAt, source |-> source, autoSaved |-> autoSaved]

\* INSERT INTO versions; the insert throws on a used primary key and, when
\* foreign keys are enforced, on a document_id without a documents row
createVersion(version, foreignKeys) ==
  /\ IF \/ \E v \in versions : v.id = version.id
        \/ foreignKeys /\ version.documentId \notin DOMAIN documents
     THEN versions' = versions
     ELSE versions' = versions \cup {version}
  /\ last' = Idle
  /\ UNCHANGED <<documents, remote, commits, queue, nextId, pass, call, editor, tasks>>

\* a caller storing a snapshot of a stored document
storeSnapshot(version, foreignKeys) ==
  /\ version.documentId \in DOMAIN documents
  /\ createVersion(version, foreignKeys)

\* the editor's automatic snapshot of the stored content of its document
createAutoSaveVersion(documentId) ==
  /\ documentId \in DOMAIN documents
  /\ Cardinality(versions) < MaxVersions
  /\ versions' = versions \cup
       {Version(Cardinality(versions) + 1, documentId,
                documents[documentId].content, 0, "local", TRUE)}
  /\ last' = Idle
  /\ UNCHANGED <<documents, remote, commits, queue, nextId, pass, call, editor, tasks>>

NoRetention == 0 - 1

\* created_at < ? AND auto_saved = 1
IsExpired(v, cutoffDate) == v.createdAt < cutoffDate /\ v.autoSaved

CutoffDateInDays(retentionDays, now) == now - retentionDays

\* Date.now() - retentionDays * 24 * 60 * 60 * 1000
CutoffDate(retentionDays, now) == now - retentionDays * DayMs

deleteOldVersions(retentionDays, now) ==
  /\ IF retentionDays = NoRetention
     THEN /\ versions' = versions
          /\ last' = VersionEvent("deleteOldVersions", 0, retentionDays, now,
                                  0, FALSE)
     ELSE LET cutoffDate == CutoffDate(retentionDays, now)
              expired == { v \in versions : IsExpired(v, cutoffDate) }
          IN /\ versions' = versions \ expired
             /\ last' = VersionEvent("deleteOldVersions", 0, retentionDays,
                                     now, Cardinality(expired), FALSE)
  /\ UNCHANGED <<documents, remote, commits, queue, nextId, pass, call, editor, tasks>>

\* ------------------------------------------------- other remote writers
RemoteTexts ==
  { LocalContent(NewDocument(0, <<"t">>, <<"x">>)),
    LocalContent(NewDocument(0, <<"t">>, <<"y">>)),
    <<"y">> }

RemoteCommit(path, text) ==
  /\ commits < MaxCommits
  /\ remote[path] # File(text)
  /\ remote' = [remote EXCEPT ![path] = File(text)]
  /\ commits' = commits + 1
  /\ last' = Idle
  /\ UNCHANGED <<documents, versions, queue, nextId, pass, call, editor, tasks>>

\* ------------------------------------------------------ direct sync calls
\* syncDocument called as the editor calls it, on { ...doc, title, content }:
\* the stored row with the title and the content the caller holds
callSyncDocument(id, title, content, net0, net1, net2, dbOk) ==
  /\ id \in DOMAIN documents
  /\ LET document == [documents[id] EXCEPT !.title = title, !.content = content]
         returned == syncDocument(document, documents, remote, commits,
                                  net0, net1, net2, dbOk)
     IN \E out \in {returned} :
        /\ out.commits <= MaxCommits
        /\ documents' = out.documents
        /\ remote' = out.remote
        /\ commits' = out.commits
        /\ last' = [Event("syncDocument", 0, document, out.result, 0,
                          out.reads, out.writes, "none")
                      EXCEPT !.fetched = out.fetched, !.branch = out.branch]
  /\ UNCHANGED <<versions, queue, nextId, pass, call, editor, tasks>>

\* pushDocument called on a stored row
callPushDocument(id, net1, net2, dbOk) ==
  /\ id \in DOMAIN documents
  /\ LET returned == pushDocument(documents[id], documents, remote, commits,
                                  net1, net2, dbOk)
     IN \E out \in {returned} :
        /\ out.commits <= MaxCommits
        /\ documents' = out.documents
        /\ remote' = out.remote
        /\ commits' = out.commits
        /\ last' = Event("pushDocument", 0, documents[id], out.result, 0,
                         out.reads, out.writes, "none")
  /\ UNCHANGED <<versions, queue, nextId, pass, call, editor, tasks>>

\* pullDocument called for a document and a path of the repository
callPullDocument(id, path, net, dbRead, dbOk) ==
  /\ LET returned == pullDocument(id, path, documents, remote, commits,
                                  net, dbRead, dbOk)
     IN \E out \in {returned} :
        /\ documents' = out.documents
        /\ last' = [Event("pullDocument", 0, [NoDocument EXCEPT !.id = id],
                          out.result, 0, out.reads, out.writes, "none")
                      EXCEPT !.fetched = out.fetched, !.path = path]
  /\ UNCHANGED <<versions, remote, commits, queue, nextId, pass, call, editor, tasks>>

\* --------------------------------------------- pushDocument in two steps
NoCall == [active |-> FALSE, document |-> NoDocument,
           existingFile |-> getFileContent([p \in Paths |-> NoFile],
                                           getDocumentPath(<<"t">>), FALSE),
           seen |-> NoFile]

\* pushDocument up to the await of getFileContent; seen is the remote file
\* at that moment
PushRead(id, net1) ==
  /\ ~call.active
  /\ id \in DOMAIN documents
  /\ LET path == getDocumentPath(documents[id].title)
     IN call' = [active |-> TRUE, document |-> documents[id],
                 existingFile |-> getFileContent(remote, path, net1),
                 seen |-> remote[path]]
  /\ last' = Idle
  /\ UNCHANGED <<documents, versions, remote, commits, queue, nextId, pass,
                 editor, tasks>>

\* pushDocument from createOrUpdateFile to its return
PushWrite(net2, dbOk) ==
  /\ call.active
  /\ LET returned == pushWrite(call.document, call.existingFile, documents,
                               remote, commits, net2, dbOk)
     IN \E out \in {returned} :
        /\ out.commits <= MaxCommits
        /\ documents' = out.documents
        /\ remote' = out.remote
        /\ commits' = out.commits
        /\ last' = [Event("pushWrite", 0, call.document, out.result, 0,
                          out.reads, out.writes, "none")
                      EXCEPT !.sha = ExistingSha(call.existingFile)]
  /\ call' = NoCall
  /\ UNCHANGED <<versions, queue, nextId, pass, editor, tasks>>

\* ----------------------------------------------------------- the editor
\* the screen before a document is loaded: useState(''), useRef('')
NoEditor == [open |-> FALSE, id |-> 0, title |-> <<>>, content |-> <<>>,
             lastSavedContent |-> <<>>]

\* What an editor handler did: whether it saved, and whether a failure was
\* reported (setError for the document, console.error for the snapshot).
EditorEvent(op, id, saved, reported) ==
  [op |-> op, id |-> id, saved |-> saved, reported |-> reported]

\* the hook's updateDocument: the table update, its error kept in the store
SaveEdits(docs, ed, dbOk) ==
  IF dbOk
  THEN updateDocument(docs, ed.id, [title |-> ed.title, content |-> ed.content])
  ELSE docs

\* the load effect of the screen
openEditor(id) ==
  /\ ~editor.open
  /\ id \in DOMAIN documents
  /\ editor' = [open |-> TRUE, id |-> id, title |-> documents[id].title,
                content |-> documents[id].content,
                lastSavedContent |-> documents[id].content]
  /\ last' = Idle
  /\ UNCHANGED <<documents, versions, remote, commits, queue, nextId, pass,
                 call, tasks>>

handleContentChange(text) ==
  /\ editor.open
  /\ editor' = [editor EXCEPT !.content = text]
  /\ last' = Idle
  /\ UNCHANGED <<documents, versions, remote, commits, queue, nextId, pass,
                 call, tasks>>

\* the auto-save timer firing; versionOk: the insert of the snapshot does
\* not throw (its error is only logged)
triggerAutoSave(dbOk, versionOk) ==
  /\ editor.open
  /\ editor.content # editor.lastSavedContent
  /\ Cardinality(versions) < MaxVersions
  /\ documents' = SaveEdits(documents, editor, dbOk)
  /\ versions' =
       IF versionOk
       THEN versions \cup {Version(Cardinality(versions) + 1, editor.id,
                                   editor.content, 0, "local", TRUE)}
       ELSE versions
  /\ editor' = [editor EXCEPT !.lastSavedContent = editor.content]
  /\ last' = EditorEvent("triggerAutoSave", editor.id, TRUE,
                         ~dbOk \/ ~versionOk)
  /\ UNCHANGED <<remote, commits, queue, nextId, pass, call, tasks>>

\* the clean-up effect that runs when the screen is left
leaveEditor(dbOk) ==
  /\ editor.open
  /\ documents' = IF editor.content # editor.lastSavedContent
                  THEN SaveEdits(documents, editor, dbOk)
                  ELSE documents
  /\ editor' = NoEditor
  /\ last' = EditorEvent("leaveEditor", editor.id,
                         editor.content # editor.lastSavedContent,
                         editor.content # editor.lastSavedContent /\ ~dbOk)
  /\ UNCHANGED <<versions, remote, commits, queue, nextId, pass, call, tasks>>

\* the back button: the save, router.back() and the clean-up effect, which
\* saves once more because lastSavedContentRef is not updated
handleBack(dbOk, dbOkAgain) ==
  /\ editor.open
  /\ documents' = IF editor.content # editor.lastSavedContent
                  THEN SaveEdits(SaveEdits(documents, editor, dbOk),
                                 editor, dbOkAgain)
                  ELSE documents
  /\ editor' = NoEditor
  /\ last' = EditorEvent("handleBack", editor.id,
                         editor.content # editor.lastSavedContent,
                         editor.content # editor.lastSavedContent
                           /\ (~dbOk \/ ~dbOkAgain))
  /\ UNCHANGED <<versions, remote, commits, queue, nextId, pass, call, tasks>>

\* ---------------------------------------------------------- line differ
\* the null of lineNumber and oldLineNumber (line numbers start at 1)
NullLine == 0

DiffLineSwapped(type, content, lineNumber, oldLineNumber) ==
  [type |-> type, content |-> content, lineNumber |-> oldLineNumber,
   oldLineNumber |-> lineNumber]

DiffLine(type, content, lineNumber, oldLineNumber) ==
  [type |-> type, content |-> content, lineNumber |-> lineNumber,
   oldLineNumber |-> oldLineNumber]

IndexOfMissing(lines, line) == 0 - 1

\* lines.indexOf(line), counted from 0; -1 when the line is not there
IndexOf(lines, line) ==
  IF \A i \in 1..Len(lines) : lines[i] # line THEN 0 - 1
  ELSE (CHOOSE i \in 1..Len(lines) :
          lines[i] = line /\ \A j \in 1..(i - 1) : lines[j] # line) - 1

AddWinsStrictly(foundInNew, foundInOld) ==
  foundInNew # 0 - 1 /\ (foundInOld = 0 - 1 \/ foundInNew < foundInOld)

\* foundInNew !== -1 && (foundInOld === -1 || foundInNew <= foundInOld)
AddWins(foundInNew, foundInOld) ==
  foundInNew # 0 - 1 /\ (foundInOld = 0 - 1 \/ foundInNew <= foundInOld)

\* what one pass through the body of the loop leaves: the records it pushed
\* and the two cursors
Iteration(records, oldIdx, newIdx) ==
  [records |-> records, oldIdx |-> oldIdx, newIdx |-> newIdx]

AdvanceNot(idx) == idx

\* oldIdx++, newIdx++
Advance(idx) == idx + 1

\* oldIdx < oldLines.length || newIdx < newLines.length
LoopCondition(oldLines, newLines, oldIdx, newIdx) ==
  oldIdx < Len(oldLines) \/ newIdx < Len(newLines)

\* The body of the while loop of computeDiff at the cursors oldIdx and newIdx
\* (counted from 0).
DiffIteration(oldLines, newLines, oldIdx, newIdx) ==
  IF oldIdx >= Len(oldLines)
  THEN Iteration(<<DiffLine("added", newLines[newIdx + 1], newIdx + 1, NullLine)>>,
                 oldIdx, Advance(newIdx))
  ELSE IF newIdx >= Len(newLines)
  THEN Iteration(<<DiffLine("removed", oldLines[oldIdx + 1], NullLine,
                            oldIdx + 1)>>,
                 Advance(oldIdx), newIdx)
  ELSE LET oldLine == oldLines[oldIdx + 1]
           newLine == newLines[newIdx + 1]
           foundInNew == IndexOf(SliceFrom(newLines, newIdx + 1), oldLine)
           foundInOld == IndexOf(SliceFrom(oldLines, oldIdx + 1), newLine)
       IN IF oldLine = newLine
          THEN Iteration(<<DiffLine("unchanged", newLine, newIdx + 1,
                                    oldIdx + 1)>>,
                         Advance(oldIdx), Advance(newIdx))
          ELSE IF AddWins(foundInNew, foundInOld)
          THEN Iteration(<<DiffLine("added", newLine, newIdx + 1, NullLine)>>,
                         oldIdx, Advance(newIdx))
          ELSE IF foundInOld # 0 - 1
          THEN Iteration(<<DiffLine("removed", oldLine, NullLine, oldIdx + 1)>>,
                         Advance(oldIdx), newIdx)
          ELSE Iteration(<<DiffLine("removed", oldLine, NullLine, oldIdx + 1),
                           DiffLine("added", newLine, newIdx + 1, NullLine)>>,
                         Advance(oldIdx), Advance(newIdx))

\* The while loop of computeDiff from the cursors oldIdx and newIdx on: the
\* records it pushes.
RECURSIVE DiffLoop(_, _, _, _)
DiffLoop(oldLines, newLines, oldIdx, newIdx) ==
  IF ~LoopCondition(oldLines, newLines, oldIdx, newIdx) THEN <<>>
  ELSE LET it == DiffIteration(oldLines, newLines, oldIdx, newIdx)
       IN it.records \o DiffLoop(oldLines, newLines, it.oldIdx, it.newIdx)

computeDiff(oldText, newText) ==
  DiffLoop(SplitLines(oldText), SplitLines(newText), 0, 0)

\* A call of computeDiff: its arguments, and its return once it has run.
DiffCall(op, oldText, newText, result) ==
  [op |-> op, oldText |-> oldText, newText |-> newText, result |-> result]

\* the history screen calling computeDiff on the texts it holds
runComputeDiff ==
  /\ last.op = "diffInput"
  /\ last' = DiffCall("computeDiff", last.oldText, last.newText,
                      computeDiff(last.oldText, last.newText))
  /\ UNCHANGED <<documents, versions, remote, commits, queue, nextId, pass,
                 call, editor, tasks>>

\* computeDiff run one iteration of its loop at a time
DiffRun(op, oldText, newText, result, oldIdx, newIdx, iterations) ==
  [op |-> op, oldText |-> oldText, newText |-> newText, result |-> result,
   oldIdx |-> oldIdx, newIdx |-> newIdx, iterations |-> iterations]

\* the call, up to the loop
startComputeDiff ==
  /\ last.op = "diffInput"
  /\ last' = DiffRun("diffLoop", last.oldText, last.newText, <<>>, 0, 0, 0)
  /\ UNCHANGED <<documents, versions, remote, commits, queue, nextId, pass,
                 call, editor, tasks>>

\* one pass through the body of the loop
diffIteration ==
  /\ last.op = "diffLoop"
  /\ \E oldLines \in {SplitLines(last.oldText)},
        newLines \in {SplitLines(last.newText)} :
       /\ LoopCondition(oldLines, newLines, last.oldIdx, last.newIdx)
       /\ \E it \in {DiffIteration(oldLines, newLines,
                                    last.oldIdx, last.newIdx)} :
            last' = [last EXCEPT !.result = @ \o it.records,
                                 !.oldIdx = it.oldIdx, !.newIdx = it.newIdx,
                                 !.iterations = @ + 1]
  /\ UNCHANGED <<documents, versions, remote, commits, queue, nextId, pass,
                 call, editor, tasks>>

\* the loop ends and computeDiff returns result
returnDiff ==
  /\ last.op = "diffLoop"
  /\ \E oldLines \in {SplitLines(last.oldText)},
        newLines \in {SplitLines(last.newText)} :
       ~LoopCondition(oldLines, newLines, last.oldIdx, last.newIdx)
  /\ last' = [last EXCEPT !.op = "computeDiff"]
  /\ UNCHANGED <<documents, versions, remote, commits, queue, nextId, pass,
                 call, editor, tasks>>

\* getDocumentPath called on a title: the title and the path returned
PathCall(title, path) == [op |-> "getDocumentPath", title |-> title, path |-> path]

callGetDocumentPath(title) ==
  /\ last' = PathCall(title, getDocumentPath(title))
  /\ UNCHANGED <<documents, versions, remote, commits, queue, nextId, pass,
                 call, editor, tasks>>

\* ------------------------------------------------ interleaved queue calls
\* The queue functions are async: each runs up to an await, is suspended, and
\* goes on when what it awaits has settled, while other calls run.
TaskIds == 1..MaxTasks

\* A call in progress: the function (op), where it is suspended (pc), the
\* queue processSyncQueue loaded (loaded), its loop (i, maxRetries), the entry
\* in hand (id, documentId, action, document), the queue that the running
\* load-modify-save loaded (q) and the error it will record (msg).
NoTask ==
  [op |-> "none", pc |-> "idle", loaded |-> <<>>, i |-> 0,
   maxRetries |-> DefaultMaxRetries, id |-> 0, documentId |-> 0,
   action |-> "none", document |-> NoDocument, q |-> <<>>, msg |-> NoError]

\* what a step of a suspended call did: the function, the entry and the pair
TaskEvent(op, id, documentId, action) ==
  [QuietEvent(op, id) EXCEPT
     !.document = [NoDocument EXCEPT !.id = documentId], !.ret = action]

\* a call starts as the first caller that has no call in progress
FreeTask(t) ==
  /\ tasks[t].op = "none"
  /\ \A u \in 1..(t - 1) : tasks[u].op # "none"

\* addToSyncQueue up to the return of its loadQueue
addLoad(t, documentId, action) ==
  /\ FreeTask(t)
  /\ tasks' = [tasks EXCEPT ![t] =
       [NoTask EXCEPT !.op = "addToSyncQueue", !.pc = "loaded",
                      !.q = loadQueue(queue), !.documentId = documentId,
                      !.action = action]]
  /\ last' = Idle
  /\ UNCHANGED <<documents, versions, remote, commits, queue, nextId, pass,
                 call, editor>>

\* addToSyncQueue from the duplicate check to its saveQueue
addSave(t) ==
  /\ tasks[t].op = "addToSyncQueue"
  /\ IF InQueue(tasks[t].q, tasks[t].documentId, tasks[t].action)
     THEN /\ UNCHANGED <<queue, nextId>>
          /\ last' = TaskEvent("addReturn", 0, tasks[t].documentId,
                               tasks[t].action)
     ELSE /\ nextId <= MaxIds
          /\ queue' = saveQueue(Append(tasks[t].q,
                         NewItem(generateId(nextId), tasks[t].documentId,
                                 tasks[t].action)))
          /\ nextId' = nextId + 1
          /\ last' = TaskEvent("addSave", generateId(nextId),
                               tasks[t].documentId, tasks[t].action)
  /\ tasks' = [tasks EXCEPT ![t] = NoTask]
  /\ UNCHANGED <<documents, versions, remote, commits, pass, call, editor>>

\* processSyncQueue up to the return of its loadQueue
passStart(t, maxRetries) ==
  /\ FreeTask(t)
  /\ tasks' = [tasks EXCEPT ![t] =
       [NoTask EXCEPT !.op = "processSyncQueue", !.pc = "loop",
                      !.loaded = loadQueue(queue), !.maxRetries = maxRetries]]
  /\ last' = Idle
  /\ UNCHANGED <<documents, versions, remote, commits, queue, nextId, pass,
                 call, editor>>

\* the entry the loop of the pass of t is at
TaskItem(t) == tasks[t].loaded[tasks[t].i + 1]

InLoopOf(t) ==
  /\ tasks[t].op = "processSyncQueue"
  /\ tasks[t].pc = "loop"
  /\ tasks[t].i < Len(tasks[t].loaded)

\* an iteration on an entry at or over the retry limit
passSkip(t) ==
  /\ InLoopOf(t)
  /\ ExceededRetryLimit(TaskItem(t), tasks[t].maxRetries)
  /\ tasks' = [tasks EXCEPT ![t].i = @ + 1]
  /\ last' = Idle
  /\ UNCHANGED <<documents, versions, remote, commits, queue, nextId, pass,
                 call, editor>>

\* processQueueItem up to its next await: getDocumentById has settled
\* (dbRead: it did not throw), and for a push entry of a stored document the
\* call of syncDocument is made
passFetch(t, dbRead) ==
  /\ InLoopOf(t)
  /\ ~ExceededRetryLimit(TaskItem(t), tasks[t].maxRetries)
  /\ LET item == TaskItem(t)
         doc == getDocumentById(documents, item.documentId)
         entry == [tasks[t] EXCEPT !.id = item.id,
                                   !.documentId = item.documentId,
                                   !.action = item.action]
     IN /\ tasks' = [tasks EXCEPT ![t] =
             IF ~dbRead
             THEN [entry EXCEPT !.pc = "bumpLoad", !.msg = MsgThrown]
             ELSE IF doc = NoDocument THEN [entry EXCEPT !.pc = "removeLoad"]
             ELSE IF item.action = "push"
             THEN [entry EXCEPT !.pc = "syncing", !.document = doc]
             ELSE [tasks[t] EXCEPT !.i = @ + 1]]
        /\ last' = Idle
  /\ UNCHANGED <<documents, versions, remote, commits, queue, nextId, pass,
                 call, editor>>

\* the syncDocument call of the pass of t settles
passSynced(t, net0, net1, net2, dbOk) ==
  /\ tasks[t].pc = "syncing"
  /\ \E out \in {syncDocument(tasks[t].document, documents, remote, commits,
                               net0, net1, net2, dbOk)} :
       /\ out.commits <= MaxCommits
       /\ documents' = out.documents
       /\ remote' = out.remote
       /\ commits' = out.commits
       /\ tasks' = [tasks EXCEPT ![t] =
            IF out.result.success
            THEN [@ EXCEPT !.pc = "removeLoad"]
            ELSE [@ EXCEPT !.pc = "bumpLoad", !.msg = out.result.message]]
       /\ last' = Idle
  /\ UNCHANGED <<versions, queue, nextId, pass, call, editor>>

\* the loadQueue of the entry's removal or of its retry update returns
passLoad(t) ==
  /\ tasks[t].pc \in {"removeLoad", "bumpLoad"}
  /\ tasks' = [tasks EXCEPT ![t] =
       [@ EXCEPT !.q = loadQueue(queue),
                 !.pc = IF @ = "removeLoad" THEN "removeSave" ELSE "bumpSave"]]
  /\ last' = Idle
  /\ UNCHANGED <<documents, versions, remote, commits, queue, nextId, pass,
                 call, editor>>

\* the saveQueue of the entry's removal or of its retry update, and the rest
\* of the iteration
passSave(t) ==
  /\ tasks[t].pc \in {"removeSave", "bumpSave"}
  /\ queue' = saveQueue(IF tasks[t].pc = "removeSave"
                        THEN RemoveItem(tasks[t].q, tasks[t].id)
                        ELSE BumpRetry(tasks[t].q, tasks[t].id, tasks[t].msg))
  /\ tasks' = [tasks EXCEPT ![t] =
       [@ EXCEPT !.pc = "loop", !.i = @ + 1, !.q = <<>>, !.msg = NoError,
                 !.id = 0, !.documentId = 0, !.action = "none",
                 !.document = NoDocument]]
  /\ last' = TaskEvent(tasks[t].pc, tasks[t].id, tasks[t].documentId,
                       tasks[t].action)
  /\ UNCHANGED <<documents, versions, remote, commits, nextId, pass, call,
                 editor>>

\* the loop is over and processSyncQueue returns
passFinish(t) ==
  /\ tasks[t].op = "processSyncQueue"
  /\ tasks[t].pc = "loop"
  /\ tasks[t].i = Len(tasks[t].loaded)
  /\ tasks' = [tasks EXCEPT ![t] = NoTask]
  /\ last' = Idle
  /\ UNCHANGED <<documents, versions, remote, commits, queue, nextId, pass,
                 call, editor>>

\* --------------------------------------------------------- specifications
Init ==
  /\ documents = <<>>
  /\ versions = {}
  /\ remote = [p \in Paths |-> NoFile]
  /\ commits = 0
  /\ queue = NoData
  /\ nextId = 1
  /\ pass = IdlePass
  /\ call = NoCall
  /\ editor = NoEditor
  /\ tasks = [t \in TaskIds |-> NoTask]
  /\ last = Idle

Actions == {"push", "pull"}

\* the contents of the documents the queue is run on
QueueBodies == { <<"x">>, <<"y">> }

\* The sync queue and what it drives.
Next ==
  \/ \E d \in Docs, a \in Actions : addToSyncQueue(d, a)
  \/ \E id \in 1..MaxIds : removeFromQueue(id)
  \/ clearSyncQueue
  \/ \E m \in RetryLimits : StartPass(m)
  \/ SkipItem
  \/ \E dbRead, net, dbOk \in BOOLEAN : ProcessItem(dbRead, net, net, net, dbOk)
  \/ FinishPass
  \/ \E d \in Docs, c \in QueueBodies : createDocument(d, <<"t">>, c)
  \/ \E d \in Docs, fk \in BOOLEAN : deleteDocument(d, fk)

Spec == Init /\ [][Next]_vars

\* What can go wrong in one reconciler call, as <<net0, net1, net2, dbOk>>:
\* nothing, one of the three remote calls or the table update failing, or
\* the network being down for the whole call.
Faults ==
  { <<TRUE, TRUE, TRUE, TRUE>>,
    <<FALSE, TRUE, TRUE, TRUE>>, <<TRUE, FALSE, TRUE, TRUE>>,
    <<TRUE, TRUE, FALSE, TRUE>>, <<TRUE, TRUE, TRUE, FALSE>>,
    <<FALSE, FALSE, FALSE, TRUE>> }

\* The reconciler called from the editor while the document is edited and
\* the remote repository is written by others.
NextSync ==
  \/ \E t \in Titles, c \in Bodies : createDocument(EditedDoc, t, c)
  \/ \E t \in Titles, c \in Bodies : saveDocument(EditedDoc, t, c)
  \/ createAutoSaveVersion(EditedDoc)
  \/ \E p \in Paths, text \in RemoteTexts : RemoteCommit(p, text)
  \/ \E t \in Titles, c \in Bodies, f \in Faults :
       callSyncDocument(EditedDoc, t, c, f[1], f[2], f[3], f[4])
  \/ \E f \in Faults : callPushDocument(EditedDoc, f[2], f[3], f[4])

SpecSync == Init /\ [][NextSync]_vars

\* The reconciler called on a document whose body is rewritten between the
\* calls, while the remote repository is written by others.
NextEdit ==
  \/ \E c \in QueueBodies : createDocument(EditedDoc, <<"t">>, c)
  \/ \E c \in QueueBodies : saveDocument(EditedDoc, <<"t">>, c)
  \/ \E p \in Paths, text \in RemoteTexts : RemoteCommit(p, text)
  \/ \E c \in QueueBodies, f \in Faults :
       callSyncDocument(EditedDoc, <<"t">>, c, f[1], f[2], f[3], f[4])

SpecEdit == Init /\ [][NextEdit]_vars

\* pushDocument suspended at its awaits while the document is edited and
\* the remote repository is written by others.
NextPush ==
  \/ \E c \in QueueBodies : createDocument(EditedDoc, <<"t">>, c)
  \/ \E c \in QueueBodies : saveDocument(EditedDoc, <<"t">>, c)
  \/ \E fk \in BOOLEAN : deleteDocument(EditedDoc, fk)
  \/ \E p \in Paths, text \in RemoteTexts : RemoteCommit(p, text)
  \/ \E net1 \in BOOLEAN : PushRead(EditedDoc, net1)
  \/ \E net2, dbOk \in BOOLEAN : PushWrite(net2, dbOk)

SpecPush == Init /\ [][NextPush]_vars

\* remote files as other writers leave them: with and without the heading,
\* with and without the blank line after it
PullTexts ==
  { <<"#", " ", "t", "\n", "\n", "x">>,
    <<"#", " ", "t", "\n", "\n", "y", "\n">>,
    <<"#", " ", "t", "\n", "x">>,
    <<"y">> }

\* pullDocument and syncDocument on a document while the remote repository
\* is written by others.
NextPull ==
  \/ \E t \in Titles, c \in QueueBodies : createDocument(EditedDoc, t, c)
  \/ \E fk \in BOOLEAN : deleteDocument(EditedDoc, fk)
  \/ \E p \in Paths, text \in PullTexts : RemoteCommit(p, text)
  \/ \E p \in Paths, net, dbRead, dbOk \in BOOLEAN :
       callPullDocument(EditedDoc, p, net, dbRead, dbOk)
  \/ \E c \in QueueBodies, f \in Faults :
       callSyncDocument(EditedDoc, <<"t">>, c, f[1], f[2], f[3], f[4])

SpecPull == Init /\ [][NextPull]_vars

\* a second document, not open in the editor
OtherDoc == 2
VersionDocs == {EditedDoc, OtherDoc}

\* the clock readings of the snapshots and of the clean-up
Times == {DayMs - 1, DayMs}
Nows == {DayMs, 2 * DayMs}

\* historyRetentionDays: unlimited, none, one day
RetentionDays == {NoRetention, 0, 1}

\* the rows the callers of createVersion hand to it
VersionRows ==
  { Version(id, d, <<"x">>, t, source, autoSaved) :
      id \in 1..MaxSnapshots, d \in VersionDocs, t \in Times,
      source \in {"local", "github"}, autoSaved \in BOOLEAN }

\* The versions table and the documents table it refers to.
NextVersions ==
  \/ \E d \in VersionDocs : createDocument(d, <<"t">>, <<"x">>)
  \/ \E d \in VersionDocs, fk \in BOOLEAN : deleteDocument(d, fk)
  \/ \E v \in VersionRows, fk \in BOOLEAN : storeSnapshot(v, fk)
  \/ \E r \in RetentionDays, now \in Nows : deleteOldVersions(r, now)

SpecVersions == Init /\ [][NextVersions]_vars

\* The editor screen on its document.
NextEditor ==
  \/ \E t \in Titles, c \in QueueBodies : createDocument(EditedDoc, t, c)
  \/ openEditor(EditedDoc)
  \/ \E c \in QueueBodies \cup Bodies : handleContentChange(c)
  \/ \E dbOk, versionOk \in BOOLEAN : triggerAutoSave(dbOk, versionOk)
  \/ \E dbOk \in BOOLEAN : leaveEditor(dbOk)
  \/ \E dbOk, dbOkAgain \in BOOLEAN : handleBack(dbOk, dbOkAgain)

SpecEditor == Init /\ [][NextEditor]_vars

\* the lines of the texts handed to computeDiff
DiffLines == { <<>>, <<"a">>, <<"b">> }

RECURSIVE LineSeqs(_)
LineSeqs(n) ==
  IF n = 0 THEN { <<>> }
  ELSE LET shorter == LineSeqs(n - 1)
       IN shorter \cup { Append(ls, l) : ls \in shorter, l \in DiffLines }

\* every text of one to MaxLines lines
DiffTexts == { JoinLines(ls) : ls \in LineSeqs(MaxLines) \ { <<>> } }

\* the pairs of texts of the documented examples
DiffExamples ==
  { << <<"a", "\n", "b", "\n", "c">>, <<"a", "\n", "b", "\n", "c">> >>,
    << <<"a", "\n", "b">>, <<"a", "\n", "x", "\n", "b">> >>,
    << <<"a", "\n", "b", "\n", "c">>, <<"a", "\n", "c">> >> }

InitDiff ==
  /\ documents = <<>>
  /\ versions = {}
  /\ remote = [p \in Paths |-> NoFile]
  /\ commits = 0
  /\ queue = NoData
  /\ nextId = 1
  /\ pass = IdlePass
  /\ call = NoCall
  /\ editor = NoEditor
  /\ tasks = [t \in TaskIds |-> NoTask]
  /\ \E texts \in (DiffTexts \X DiffTexts) \cup DiffExamples :
       last = DiffCall("diffInput", texts[1], texts[2], <<>>)

NextDiff == runComputeDiff

SpecDiff == InitDiff /\ [][NextDiff]_vars

\* the characters of the titles handed to getDocumentPath
TitleChars == {"t", " ", "\n", "/", "*"}

RECURSIVE TitlesUpTo(_)
TitlesUpTo(n) ==
  IF n = 0 THEN { <<>> }
  ELSE LET shorter == TitlesUpTo(n - 1)
       IN shorter \cup { Append(t, c) : t \in shorter, c \in TitleChars }

\* n times the character c
Repeat(c, n) == [i \in 1..n |-> c]

\* titles around the length limit: one character repeated, and a run of
\* whitespace or illegal characters across the limit
LongTitles ==
  { Repeat(c, n) : c \in {"t", "/"}, n \in (PathMaxLen - 1)..(PathMaxLen + 2) }
  \cup { Repeat("t", PathMaxLen - 1) \o sep \o <<"t">> :
            sep \in { <<" ", " ">>, <<" ", "\n", " ">>, <<"/", " ">> } }

PathTitles == TitlesUpTo(MaxTitleLen) \cup LongTitles

NextPath == \E title \in PathTitles : callGetDocumentPath(title)

SpecPath == Init /\ [][NextPath]_vars

\* The sync queue run by passes that all take the default maxRetries.
NextDefaultLimit ==
  \/ \E d \in Docs, a \in Actions : addToSyncQueue(d, a)
  \/ \E id \in 1..MaxIds : removeFromQueue(id)
  \/ clearSyncQueue
  \/ StartPass(DefaultMaxRetries)
  \/ SkipItem
  \/ \E dbRead, net, dbOk \in BOOLEAN : ProcessItem(dbRead, net, net, net, dbOk)
  \/ FinishPass
  \/ \E d \in Docs, c \in QueueBodies : createDocument(d, <<"t">>, c)
  \/ \E d \in Docs, fk \in BOOLEAN : deleteDocument(d, fk)

SpecDefaultLimit == Init /\ [][NextDefaultLimit]_vars

\* the titles and the bodies of the documents pushed and pulled back
RoundTitles ==
  { <<"t">>, <<"t", " ">>, <<" ", "t">>, <<>>, <<"t", "\n", "u">> }

RoundBodies == { <<"x">>, <<"x", "\n">>, <<>>, <<"x", "\n", "y">> }

RoundPaths == { getDocumentPath(t) : t \in RoundTitles }

InitRound ==
  /\ documents = <<>>
  /\ versions = {}
  /\ remote = [p \in RoundPaths |-> NoFile]
  /\ commits = 0
  /\ queue = NoData
  /\ nextId = 1
  /\ pass = IdlePass
  /\ call = NoCall
  /\ editor = NoEditor
  /\ tasks = [t \in TaskIds |-> NoTask]
  /\ last = Idle

\* A document pushed to the repository and pulled from it.
NextRound ==
  \/ \E t \in RoundTitles, c \in RoundBodies : createDocument(EditedDoc, t, c)
  \/ deleteDocument(EditedDoc, TRUE)
  \/ callPushDocument(EditedDoc, TRUE, TRUE, TRUE)
  \/ \E p \in RoundPaths : callPullDocument(EditedDoc, p, TRUE, TRUE, TRUE)

SpecRound == InitRound /\ [][NextRound]_vars

\* the maxRetries option of the interleaved passes
AsyncRetryLimit == 1

\* The queue functions called while earlier calls are suspended.
NextAsync ==
  \/ \E d \in Docs : createDocument(d, <<"t">>, <<"x">>)
  \/ \E d \in Docs : deleteDocument(d, TRUE)
  \/ \E t \in TaskIds, d \in Docs, a \in Actions : addLoad(t, d, a)
  \/ \E t \in TaskIds : addSave(t)
  \/ \E t \in TaskIds : passStart(t, AsyncRetryLimit)
  \/ \E t \in TaskIds : passSkip(t)
  \/ \E t \in TaskIds : passFetch(t, TRUE)
  \/ \E t \in TaskIds, net \in BOOLEAN : passSynced(t, net, net, net, TRUE)
  \/ \E t \in TaskIds : passLoad(t)
  \/ \E t \in TaskIds : passSave(t)
  \/ \E t \in TaskIds : passFinish(t)

SpecAsync == Init /\ [][NextAsync]_vars

NextDiffLoop ==
  \/ startComputeDiff
  \/ diffIteration
  \/ returnDiff

\* a call of computeDiff that has started runs on: nothing suspends it
SpecDiffLoop == InitDiff /\ [][NextDiffLoop]_vars /\ WF_vars(NextDiffLoop)

\* ------------------------------------------------------------ properties
\* the persisted queue, as loadQueue reads it
Queued == loadQueue(queue)

\* a step of the loop of processSyncQueue
PassStep == pass.active /\ pass'.active /\ pass'.i # pass.i

\* the entry the loop is at
CurrentItem == pass.queue[pass.i + 1]

\* a step that ran processQueueItem
ProcessStep == PassStep /\ last'.op = "processQueueItem"

HasEntry(q, id) == \E k \in 1..Len(q) : q[k].id = id

EntryOf(q, id) == q[CHOOSE k \in 1..Len(q) : q[k].id = id]

Without(q, id) == SelectSeq(q, LAMBDA e : e.id # id)

NoDuplicates(q) ==
  \A j, k \in 1..Len(q) :
    (q[j].documentId = q[k].documentId /\ q[j].action = q[k].action) => j = k

C6_PullProcessed ==
  ~(/\ last.op = "processQueueItem"
    /\ last.ret = "success"
    /\ last.document # NoDocument
    /\ last.reads = 0
    /\ HasEntry(Queued, last.id)
    /\ EntryOf(Queued, last.id).action = "pull")

RECURSIVE Ids(_)
Ids(q) == IF q = <<>> THEN <<>> ELSE <<Head(q).id>> \o Ids(Tail(q))

SyncCall == last'.op = "syncDocument"
PushCall == last'.op \in {"syncDocument", "pushDocument"}

\* the path and the local content of the document of the call
CallPath == getDocumentPath(last'.document.title)
CallContent == LocalContent(last'.document)

\* C8 as stated: when the fetch reflects the remote, no_change is returned
\* exactly when the remote file exists and its content equals the local
\* content, every other non-failing call pushes, and after a successful sync
\* the remote content equals the local content.
C8_AsStated ==
  [][(SyncCall /\ last'.fetched = remote[CallPath].exists) =>
       /\ (last'.result.action = "no_change") <=>
            (remote[CallPath].exists /\ remote[CallPath].text = CallContent)
       /\ (last'.result.success /\ last'.result.action # "no_change") =>
            last'.result.action = "pushed"
       /\ last'.result.success => remote'[CallPath] = File(CallContent)]_vars

\* C8 amended: no_change is returned exactly when the fetch returns a file
\* whose decoded content equals the local content after both are trimmed;
\* every other call performs pushDocument; after a successful sync the
\* remote content equals the local content up to surrounding whitespace,
\* and exactly when the result is pushed.
C8_SyncDecision ==
  [][SyncCall =>
       /\ last'.fetched => remote[CallPath].exists
       /\ (last'.result.action = "no_change") <=>
            (last'.fetched /\ Trim(remote[CallPath].text) = Trim(CallContent))
       /\ last'.result.action # "no_change" =>
            /\ last'.writes = 1
            /\ last'.result.action \in {"pushed", "error"}
       /\ last'.result.action = "pushed" => remote'[CallPath] = File(CallContent)
       /\ last'.result.success =>
            /\ remote'[CallPath].exists
            /\ Trim(remote'[CallPath].text) = Trim(CallContent)]_vars

\* syncDocument has just returned no_change for a local content that differs
\* from the remote content
C8_Witness ==
  /\ last.op = "syncDocument"
  /\ last.result.action = "no_change"
  /\ remote[getDocumentPath(last.document.title)].text # LocalContent(last.document)

\* C9: a syncDocument call that returns no_change makes no remote write,
\* creates no snapshot and leaves the documents table as it is.
C9_NoChangeFrame ==
  [][(SyncCall /\ last'.result.action = "no_change") =>
       /\ last'.writes = 0
       /\ remote' = remote
       /\ commits' = commits
       /\ versions' = versions
       /\ documents' = documents]_vars

\* syncDocument has just returned no_change for a document that has a
\* snapshot and has never been pushed
C9_Witness ==
  /\ last.op = "syncDocument"
  /\ last.result.action = "no_change"
  /\ versions # {}
  /\ last.document.id \in DOMAIN documents
  /\ documents[last.document.id].githubSync = NoSync

\* C10: after pushDocument returns pushed, the stored sync descriptor of the
\* document is enabled and synced with lastCommitSha the id of the commit the
\* write created, and the stored title and content are as before; after it
\* returns error because the write failed, the documents table is unchanged.
C10_PushDescriptor ==
  [][PushCall =>
       LET id == last'.document.id
       IN /\ last'.result.action = "pushed" =>
               /\ commits' = commits + 1
               /\ last'.result.commitSha = CommitSha(commits')
               /\ documents'[id].githubSync.enabled
               /\ documents'[id].githubSync.syncStatus = "synced"
               /\ documents'[id].githubSync.lastCommitSha = CommitSha(commits')
               /\ documents'[id].title = documents[id].title
               /\ documents'[id].content = documents[id].content
          /\ (last'.result.action = "error"
                /\ last'.result.message = MsgUploadFailed) =>
               documents' = documents]_vars

\* pushDocument has just pushed the editor's title, which differs from the
\* stored one
C10_Witness ==
  /\ last.op = "syncDocument"
  /\ last.result.action = "pushed"
  /\ documents[last.document.id].title # last.document.title
  /\ documents[last.document.id].githubSync.syncStatus = "synced"

\* the stored row of the document of the call, before the call
CallRow == documents[last'.document.id]

\* C11: a syncDocument call on a locally edited document whose stored
\* lastCommitSha is the id of the latest commit of the repository, made by
\* the push that wrote the file at the document's path, finds it equal to
\* the revision id of the fetched file and takes the remote-unchanged
\* branch; when no call fails it returns pushed.
C11_RemoteUnchangedBranch ==
  [][(/\ SyncCall
      /\ commits > 0
      /\ CallRow.githubSync.lastCommitSha = CommitSha(commits)
      /\ CallRow.githubSync.repoPath = CallPath
      /\ last'.fetched
      /\ last'.result.action # "no_change")
       => /\ last'.branch = "unchanged"
          /\ last'.result.action \in {"pushed", "error"}]_vars

\* the return of a pushDocument call that was suspended after its read
PushReturn == call.active /\ ~call'.active

\* C12: the write of pushDocument is handed the revision id its own read
\* returned (none when the read returned no file); when the remote file at
\* the write differs from the file at the read, the push returns error and
\* changes neither the remote repository nor the documents table.
C12_StaleWriteRejected ==
  [][PushReturn =>
       LET path == getDocumentPath(call.document.title)
       IN /\ last'.sha = IF call.existingFile.found
                         THEN BlobSha(call.seen.text) ELSE NoSha
          /\ remote[path] # call.seen =>
               /\ last'.result.action = "error"
               /\ remote' = remote
               /\ commits' = commits
               /\ documents' = documents]_vars

\* a push has just failed because the file it had read was rewritten before
\* its write
C12_Witness ==
  /\ last.op = "pushWrite"
  /\ last.result.action = "error"
  /\ last.sha # NoSha
  /\ remote[getDocumentPath(last.document.title)].exists
  /\ last.sha # BlobSha(remote[getDocumentPath(last.document.title)].text)
  /\ last.document.id \in DOMAIN documents

\* C13: a reconciler call always returns a result, and when a remote call
\* made inside it failed (here: the fetch of syncDocument returned nothing
\* although the file exists) the result is unsuccessful with action error.
C13_FailuresAreErrors ==
  [][SyncCall =>
       /\ last'.result # NoResult
       /\ (remote[CallPath].exists /\ ~last'.fetched) =>
            (~last'.result.success /\ last'.result.action = "error")]_vars

\* a call of pullDocument
PullCall == last'.op = "pullDocument"

\* what follows the first line of a text
RestOfText(s) ==
  IF \A i \in 1..Len(s) : s[i] # "\n" THEN <<>>
  ELSE SubSeq(s, 1 + CHOOSE i \in 1..Len(s) :
                       s[i] = "\n" /\ \A j \in 1..(i - 1) : s[j] # "\n",
              Len(s))

HasHeading(s) == Len(s) >= 2 /\ s[1] = "#" /\ s[2] = " "

\* C14: after pullDocument returns pulled, the stored content is the remote
\* text after its heading line (up to surrounding whitespace), or the whole
\* remote text when it has no heading; the stored title is the heading's
\* title, or as before when there is no heading; the descriptor is enabled
\* and synced with lastCommitSha the revision id of the fetched file.  When
\* the remote file or the document is missing the result is error and the
\* documents table is unchanged.
C14_PullOverwrites ==
  [][PullCall =>
       LET id == last'.document.id
           file == remote[last'.path]
       IN /\ last'.result.action = "pulled" =>
               /\ file.exists /\ id \in DOMAIN documents
               /\ documents'[id].content =
                    IF HasHeading(file.text) THEN Trim(RestOfText(file.text))
                    ELSE file.text
               /\ documents'[id].title =
                    IF HasHeading(file.text)
                    THEN Trim(SubSeq(SplitLines(file.text)[1], 3,
                                     Len(SplitLines(file.text)[1])))
                    ELSE documents[id].title
               /\ documents'[id].githubSync =
                    [enabled |-> TRUE, repoPath |-> last'.path,
                     lastCommitSha |-> BlobSha(file.text),
                     syncStatus |-> "synced"]
               /\ last'.result.commitSha = BlobSha(file.text)
          /\ (~file.exists \/ id \notin DOMAIN documents) =>
               /\ last'.result.action = "error"
               /\ documents' = documents]_vars

\* C15: after a sync attempt on a stored document, direct or through the
\* queue, ends with action error, the stored syncStatus of the document is
\* not a synced left by an earlier sync.
C15_StatusReflectsFailure ==
  [][((SyncCall \/ last'.op = "processQueueItem")
        /\ last'.result.action = "error"
        /\ last'.document.id \in DOMAIN documents')
       => documents'[last'.document.id].githubSync.syncStatus # "synced"]_vars

\* a call of deleteOldVersions
CleanupCall == last'.op = "deleteOldVersions"

\* C16: deleteOldVersions removes no snapshot that is manual (autoSaved
\* false) or that came from the remote (source github), whatever the
\* retention and the age of the snapshot.
C16_RetentionExemption ==
  [][CleanupCall =>
       \A v \in versions :
         (~v.autoSaved \/ v.source = "github") => v \in versions']_vars

\* C17: deleteOldVersions(-1) deletes nothing and returns 0; with any other
\* retention it removes every automatic snapshot created before now minus
\* retentionDays days, of whatever document, keeps every automatic snapshot
\* created at or after that time, and returns the number of rows removed.
C17_DeleteOldVersions ==
  [][CleanupCall =>
       LET cutoff == last'.now - last'.retentionDays * (24 * 60 * 60 * 1000)
       IN IF last'.retentionDays = 0 - 1
          THEN versions' = versions /\ last'.changes = 0
          ELSE /\ versions' \subseteq versions
               /\ \A v \in versions :
                    v.autoSaved => (v \in versions' <=> v.createdAt >= cutoff)
               /\ last'.changes =
                    Cardinality(versions) - Cardinality(versions')]_vars

\* a clean-up has just removed a snapshot and kept an automatic snapshot of
\* another document that was created exactly at the cutoff
C17_Witness ==
  /\ last.op = "deleteOldVersions"
  /\ last.changes = 1
  /\ \E v \in versions :
       /\ v.autoSaved
       /\ v.documentId = OtherDoc
       /\ v.createdAt = last.now - last.retentionDays * DayMs

\* C18: when deleteDocument(id) has just completed no snapshot of id is
\* left, and every stored snapshot refers to a stored document.
C18_CascadeDelete ==
  /\ last.op = "deleteDocument" =>
       \A v \in versions : v.documentId # last.id
  /\ \A v \in versions : v.documentId \in DOMAIN documents

\* the snapshots of a document, and the one stored last (snapshot ids are
\* handed out in the order of creation)
SnapshotsOf(id) == { v \in versions : v.documentId = id }
IsLatestSnapshot(v) == \A w \in SnapshotsOf(v.documentId) : w.id <= v.id

\* C19: when an editor save path (the auto-save timer, the back button, the
\* flush on leaving the screen) has just saved the document without a
\* reported error, the latest snapshot of the document has the stored
\* content.
C19_SnapshotFollowsSave ==
  (/\ last.op \in {"triggerAutoSave", "handleBack", "leaveEditor"}
   /\ last.saved
   /\ ~last.reported
   /\ last.id \in DOMAIN documents)
    => \E v \in SnapshotsOf(last.id) :
         /\ IsLatestSnapshot(v)
         /\ v.content = documents[last.id].content

\* ---- C20
DiffDone == last.op = "computeDiff"

OldLines == SplitLines(last.oldText)

NewLines == SplitLines(last.newText)

RemoveAt(lines, k) == SubSeq(lines, 1, k - 1) \o SubSeq(lines, k + 1, Len(lines))

IsChange(line) == line.type # "unchanged"

\* the records of a diff that report a change
Changes(result) == SelectSeq(result, IsChange)

\* the new text is the old one with one line inserted
OneLineInserted ==
  \E k \in 1..Len(NewLines) : RemoveAt(NewLines, k) = OldLines

\* the new text is the old one with one line deleted
OneLineDeleted ==
  \E k \in 1..Len(OldLines) : RemoveAt(OldLines, k) = NewLines

\* the first line at which the two texts part, counted from 1
FirstMismatch ==
  CHOOSE j \in 1..(Len(OldLines) + 1) :
    /\ j > Len(OldLines) \/ j > Len(NewLines) \/ OldLines[j] # NewLines[j]
    /\ \A i \in 1..(j - 1) :
         i <= Len(OldLines) /\ i <= Len(NewLines) /\ OldLines[i] = NewLines[i]

\* at the first mismatch both forward searches succeed at offset 0: the old
\* line is the next new line and the new line is the next old line
ForwardTie ==
  LET j == FirstMismatch
  IN /\ j + 1 <= Len(OldLines) /\ j + 1 <= Len(NewLines)
     /\ NewLines[j + 1] = OldLines[j]
     /\ OldLines[j + 1] = NewLines[j]

ExampleResults ==
  /\ last.oldText = <<"a", "\n", "b", "\n", "c">>
     /\ last.newText = <<"a", "\n", "b", "\n", "c">>
     => last.result = << DiffLine("unchanged", <<"a">>, 1, 1),
                         DiffLine("unchanged", <<"b">>, 2, 2),
                         DiffLine("unchanged", <<"c">>, 3, 3) >>
  /\ last.oldText = <<"a", "\n", "b">>
     /\ last.newText = <<"a", "\n", "x", "\n", "b">>
     => last.result = << DiffLine("unchanged", <<"a">>, 1, 1),
                         DiffLine("added", <<"x">>, 2, NullLine),
                         DiffLine("unchanged", <<"b">>, 3, 2) >>
  /\ last.oldText = <<"a", "\n", "b", "\n", "c">>
     /\ last.newText = <<"a", "\n", "c">>
     => last.result = << DiffLine("unchanged", <<"a">>, 1, 1),
                         DiffLine("removed", <<"b">>, NullLine, 2),
                         DiffLine("unchanged", <<"c">>, 2, 3) >>

InsertionIsOneRecord ==
  OneLineInserted
  => /\ Len(Changes(last.result)) = 1
     /\ Changes(last.result)[1].type = "added"

DeletionIsOneRecord ==
  /\ Len(Changes(last.result)) = 1
  /\ Changes(last.result)[1].type = "removed"

\* C20 as stated: computeDiff gives the three documented results on the
\* documented inputs, and a text that differs from the old one by one inserted
\* line gives one added record and no other change, a text that differs by one
\* deleted line one removed record and no other change.
C20_SingleRecordAlways ==
  DiffDone
  => /\ ExampleResults
     /\ InsertionIsOneRecord
     /\ OneLineDeleted => DeletionIsOneRecord

\* C20: computeDiff gives the three documented results on the documented
\* inputs; one inserted line always gives one added record and no other
\* change; one deleted line gives one removed record and no other change
\* unless, where the texts part, each text's line is the other text's next
\* line (old x, y, x against new y, x): the tie goes to "added".
C20_LineDiffer ==
  DiffDone
  => /\ ExampleResults
     /\ InsertionIsOneRecord
     /\ OneLineDeleted /\ ~ForwardTie => DeletionIsOneRecord

\* a line deleted from in front of a line that occurs again further down
C20_Witness ==
  /\ DiffDone
  /\ last.oldText = <<"a", "\n", "b", "\n", "b">>
  /\ last.newText = <<"b", "\n", "b">>
  /\ DeletionIsOneRecord

\* ---- C21
IsAdded(line) == line.type = "added"

IsUnchanged(line) == line.type = "unchanged"

EmptyOldText == DiffDone /\ last.oldText = <<>>

HasEmptyLine(lines) == \E i \in 1..Len(lines) : lines[i] = <<>>

FirstEmptyLine(lines) ==
  CHOOSE i \in 1..Len(lines) :
    lines[i] = <<>> /\ \A j \in 1..(i - 1) : lines[j] # <<>>

\* C21 as stated: against the empty old text the added records are the lines
\* of the new text, one for one and in order, and no record is unchanged.
C21_EveryLineAdded ==
  EmptyOldText
  => /\ Len(SelectSeq(last.result, IsAdded)) = Len(NewLines)
     /\ \A i \in 1..Len(NewLines) :
          SelectSeq(last.result, IsAdded)[i].content = NewLines[i]
     /\ SelectSeq(last.result, IsUnchanged) = <<>>

\* C21: against the empty old text, a new text without an empty line gives
\* a removed record for the old text's one empty line and then one added
\* record per new line; a new text with an empty line gives one record per
\* new line, unchanged for its first empty line and added for every other.
C21_EmptyOldText ==
  EmptyOldText
  => IF HasEmptyLine(NewLines)
     THEN last.result =
            [i \in 1..Len(NewLines) |->
               IF i = FirstEmptyLine(NewLines)
               THEN DiffLine("unchanged", <<>>, i, 1)
               ELSE DiffLine("added", NewLines[i], i, NullLine)]
     ELSE last.result =
            <<DiffLine("removed", <<>>, NullLine, 1)>>
            \o [i \in 1..Len(NewLines) |->
                  DiffLine("added", NewLines[i], i, NullLine)]

\* the empty old text against a new text of two lines, neither empty
C21_Witness ==
  /\ EmptyOldText
  /\ last.newText = <<"a", "\n", "b">>
  /\ Len(SelectSeq(last.result, IsAdded)) = 2

\* ---- C22
InLoop == last.op = "diffLoop"

\* C22: every iteration of the loop of computeDiff moves a cursor forward and
\* none back, the number of iterations never exceeds |oldLines| + |newLines|,
\* the cursors stay within the arrays, and every call returns.
C22_LoopTerminates ==
  /\ [][InLoop /\ last'.op = "diffLoop"
          => /\ last'.oldIdx >= last.oldIdx
             /\ last'.newIdx >= last.newIdx
             /\ last'.oldIdx + last'.newIdx > last.oldIdx + last.newIdx
             /\ last'.iterations = last.iterations + 1]_vars
  /\ [](InLoop => /\ last.iterations <= Len(OldLines) + Len(NewLines)
                  /\ last.oldIdx <= Len(OldLines)
                  /\ last.newIdx <= Len(NewLines))
  /\ <>DiffDone

\* a call that returned after three or more iterations, one short of
\* |oldLines| + |newLines|
C22_Witness ==
  /\ DiffDone
  /\ last.iterations >= 3
  /\ last.iterations = Len(OldLines) + Len(NewLines) - 1
  /\ last.result = computeDiff(last.oldText, last.newText)

\* ---- C23
PathDone == last.op = "getDocumentPath"

\* the part of a path between the directory prefix and the extension
SafeName(path) == SubSeq(path, 2, Len(path) - 1)

WellFormedName(name) ==
  /\ Len(name) <= 100
  /\ \A i \in 1..Len(name) :
       name[i] \notin {"<", ">", ":", "\"", "/", "\\", "|", "?", "*",
                       " ", "\n", "\t"}

\* C23: the path returned for a title is the directory prefix, a name of at
\* most 100 characters with no illegal path character and no whitespace, and
\* the extension; a call on the title of the call before returns the same path.
C23_PathIsSafe ==
  /\ [](PathDone
        => /\ last.path[1] = "documents/"
           /\ last.path[Len(last.path)] = ".md"
           /\ WellFormedName(SafeName(last.path)))
  /\ [][PathDone /\ last'.op = "getDocumentPath" /\ last'.title = last.title
          => last'.path = last.path]_vars

\* a title over the limit, of illegal characters only, cut to the limit
C23_Witness ==
  /\ PathDone
  /\ last.title = Repeat("/", PathMaxLen + 2)
  /\ SafeName(last.path) = Repeat("_", PathMaxLen)

\* ---- C24
\* C24: in a pass the progress callback has been invoked once for every entry
\* the loop has gone past, processed or skipped, the k-th time with the
\* arguments (k, number of entries of the pass).
C24_ProgressAfterEveryEntry ==
  pass.active
  => /\ Len(pass.progress) = pass.i
     /\ \A k \in 1..Len(pass.progress) :
          pass.progress[k] = <<k, Len(pass.queue)>>

\* ---- C25
\* the callers whose pass has a syncDocument call in flight
Syncing == { t \in TaskIds : tasks[t].pc = "syncing" }

\* C25: at no time do two passes have a syncDocument call in flight.
C25_OneSyncInFlight == Cardinality(Syncing) <= 1

\* ---- C27
\* a step in which a pass saved the queue
SavedStep == last'.op \in {"removeSave", "bumpSave"}

EntryIds(q) == { q[k].id : k \in 1..Len(q) }

\* C27: a save of the queue by a pass applies to the queue as it is when the
\* save is made: every other entry, one enqueued during the pass included, is
\* kept as it is, no removed entry comes back, and the entry of the iteration
\* is removed or has its retry count raised by one.
C27_NoLostUpdate ==
  [][SavedStep
     => /\ \A id \in EntryIds(Queued) \ {last'.id} :
             /\ id \in EntryIds(Queued')
             /\ EntryOf(Queued', id) = EntryOf(Queued, id)
        /\ EntryIds(Queued') \subseteq EntryIds(Queued)
        /\ last'.op = "removeSave" => last'.id \notin EntryIds(Queued')
        /\ last'.op = "bumpSave" /\ last'.id \in EntryIds(Queued)
           => /\ last'.id \in EntryIds(Queued')
              /\ EntryOf(Queued', last'.id).retryCount =
                   EntryOf(Queued, last'.id).retryCount + 1]_vars

\* ---- C26
OnOldSide(line) == line.type \in {"unchanged", "removed"}

OnNewSide(line) == line.type \in {"unchanged", "added"}

\* C26: the unchanged and removed records of a diff are, in order, the lines
\* of the old text, numbered 1, 2, ... in oldLineNumber, and its unchanged and
\* added records are, in order, the lines of the new text, numbered
\* 1, 2, ... in lineNumber.
C26_DiffReconstructs ==
  DiffDone
  => LET oldSide == SelectSeq(last.result, OnOldSide)
         newSide == SelectSeq(last.result, OnNewSide)
     IN /\ Len(oldSide) = Len(OldLines)
        /\ \A k \in 1..Len(oldSide) :
             oldSide[k].content = OldLines[k] /\ oldSide[k].oldLineNumber = k
        /\ Len(newSide) = Len(NewLines)
        /\ \A k \in 1..Len(newSide) :
             newSide[k].content = NewLines[k] /\ newSide[k].lineNumber = k

\* a diff with records of all three types
C26_Witness ==
  /\ DiffDone
  /\ \A type \in {"added", "removed", "unchanged"} :
       \E k \in 1..Len(last.result) : last.result[k].type = type
  /\ Len(OldLines) = MaxLines
  /\ Len(NewLines) = MaxLines

\* ---- C28
\* C28: under passes that all run with the default maxRetries, the retry
\* count of every entry is between 0 and maxRetries; an entry enters the
\* queue with count 0; no step lowers a count, raises it by more than one or
\* raises a count that has reached maxRetries; and during a pass no count is
\* more than one above what it was when the pass loaded the queue.
C28_RetryCountBounded ==
  /\ [](\A k \in 1..Len(Queued) :
          Queued[k].retryCount \in 0..DefaultMaxRetries)
  /\ [][\A id \in EntryIds(Queued') :
          IF id \in EntryIds(Queued)
          THEN LET before == EntryOf(Queued, id).retryCount
                   after == EntryOf(Queued', id).retryCount
               IN /\ after \in {before, before + 1}
                  /\ before >= DefaultMaxRetries => after = before
          ELSE EntryOf(Queued', id).retryCount = 0]_vars
  /\ [](pass.active
        => \A k \in 1..Len(pass.queue) :
             pass.queue[k].id \in EntryIds(Queued)
             => EntryOf(Queued, pass.queue[k].id).retryCount
                  <= pass.queue[k].retryCount + 1)

\* an entry whose count has reached maxRetries has just been skipped
C28_Witness ==
  /\ last.op = "skip"
  /\ last.id \in EntryIds(Queued)
  /\ EntryOf(Queued, last.id).retryCount = DefaultMaxRetries

\* ---- C29
\* a queued entry whose retry count has reached the default maxRetries
Parked(entry) == entry.retryCount >= DefaultMaxRetries

\* a step of a pass, a creation or deletion of a document, or a call of
\* addToSyncQueue: every step but those of removeFromQueue and clearSyncQueue
NotRemoval ==
  pass' # pass \/ documents' # documents \/ last'.op = "addToSyncQueue"

PullOfPushed ==
  /\ last'.op = "pullDocument"
  /\ last'.result.action = "pulled"
  /\ last'.document.id \in DOMAIN documents
  /\ LET doc == documents[last'.document.id]
     IN /\ doc.githubSync.syncStatus = "synced"
        /\ doc.githubSync.lastCommitSha[1] = "commit"
        /\ last'.path = getDocumentPath(doc.title)
        /\ remote[last'.path] = File(LocalContent(doc))

HasLineBreak(text) == \E i \in 1..Len(text) : text[i] = "\n"

\* C30 as stated: a pull of the file a push wrote leaves the title and the
\* content of the document as they were.
C30_RoundTripExact ==
  [][PullOfPushed
     => /\ documents'[last'.document.id].title =
             documents[last'.document.id].title
        /\ documents'[last'.document.id].content =
             documents[last'.document.id].content]_vars

\* C30: a pull of the file a push wrote for a document whose title has no
\* line break sets the content to the body trimmed of leading and trailing
\* whitespace, and the title to the title trimmed likewise, or leaves the
\* title as it was when trimming leaves nothing.
C30_RoundTripTrimmed ==
  [][PullOfPushed /\ ~HasLineBreak(documents[last'.document.id].title)
     => /\ documents'[last'.document.id].title =
             IF Trim(documents[last'.document.id].title) = <<>>
             THEN documents[last'.document.id].title
             ELSE Trim(documents[last'.document.id].title)
        /\ documents'[last'.document.id].content =
             Trim(documents[last'.document.id].content)]_vars

\* a document of two lines pulled back as it was pushed
C30_Witness ==
  /\ last.op = "pullDocument"
  /\ last.result.action = "pulled"
  /\ EditedDoc \in DOMAIN documents
  /\ documents[EditedDoc].title = <<"t">>
  /\ documents[EditedDoc].content = <<"x", "\n", "y">>
  /\ remote[last.path] = File(LocalContent(documents[EditedDoc]))
  /\ commits > 0

====
